---- MODULE Spec2Model ----
(***************************************************************************)
(* Entropy-Escape: the GameEngine (game/GameEngine.ts, latest revision),   *)
(* the React shell that drives it (App.tsx, components/Overlay.tsx) and    *)
(* the browser facilities it relies on (localStorage,                     *)
(* requestAnimationFrame).                                                 *)
(*                                                                         *)
(* Every engine method is an operator from a world record                  *)
(*   W = [engine, app, browser, log]                                       *)
(* to the SET of world records the call can end in: one element for a      *)
(* deterministic method, several where the code depends on geometry,       *)
(* Math.random() or the input devices.  A handler is the composition of    *)
(* the methods it calls, so one action is one whole handler.               *)
(*                                                                         *)
(* Units.  Time is counted in frames of the clamped step (dt = 0.05 s in   *)
(* loop()); the durations of the source are scaled down to a few frames    *)
(* and are bounds of the model.  Stat multipliers are held in thousandths  *)
(* (1000 = 1.0), difficultyMultiplier in fifths (5 = 1.0), enemy hp and    *)
(* bullet damage in thousandths of a hit point, player hp in hit points.   *)
(*                                                                         *)
(* Spec is the page as a user drives it through the overlays, the Escape   *)
(* key and the window, up to the first boss loop, with the fire button     *)
(* never pressed (mouseDown stays FALSE, so no bullet is fired and no      *)
(* enemy is killed).  SpecBoss is the same page from the last tick of loop *)
(* 4 through the boss fight.  SpecDamage calls takeDamage directly, as     *)
(* scenario A of the specification does.  SpecArena is a run in progress   *)
(* in which the player fires and dashes: bullets, kills, pickups, lore     *)
(* fragments and the death of the boss.  SpecNova is the boss fight with   *)
(* the nova key, SpecPierce an upgrade chosen with a bullet in flight,     *)
(* SpecDraw the draw of the level-up screen, SpecMove the player's         *)
(* position, SpecTeardown the page up to and after the unmount of App.     *)
(***************************************************************************)
EXTENDS Integers, Sequences, FiniteSets

VARIABLES engine, app, browser, log

vars == <<engine, app, browser, log>>

---------------------------------------------------------------------------
(* Bounds of the model *)

LOOP_DURATION == 2        \* frames per loop (source: 60 s)
DANGER_WINDOW == 1        \* low-time window (source: 10 s)
OVERDRIVE_DURATION == 2   \* frames of overdrive (source: 5 s)
XP_TO_OVERDRIVE == 2      \* xp needed for overdrive (source: 50)
COMBO_WINDOW == 1         \* frames a combo survives (source: 2 s)
CHIP_DELAY == 1           \* frames below 0 before chip damage (source: 5 s)
MaxLoop == 6              \* loopCount never exceeds this
MaxEntities == 1          \* cap on enemies, on pickups; bullets get one more
MaxCombo == 1             \* cap on the kill combo
MaxRaf == 2               \* cap on pending animation-frame callbacks
DASH_DURATION == 2        \* frames a dash lasts (source: 0.15 s)
DASH_COOLDOWN == 3        \* frames between dashes (source: 1.2 s)
GRAV_WELL_LIFE == 2       \* frames a gravity well lasts (source: 1.5 s)
BOSS_RING == 1            \* bullets of the boss's ring (source: 16)
BOSS_BURST == 1           \* deferred shots of the boss's burst (source: 3)
BOSS_SUMMON == 1          \* swarmers the boss summons (source: 2)
BOSS_ATTACK_DELAY == 2    \* frames before the boss's first attack (source: 2.0 s)
BOSS_ATTACK_PERIOD == 1   \* frames between its attacks (source: 1.0 to 3.0 s)
CANVAS_WIDTH == 6         \* width of the arena (source: 1280)
CANVAS_HEIGHT == 4        \* height of the arena (source: 720)
PLAYER_RADIUS == 1        \* player.radius (source: 12)
NOVA_COOLDOWN == 3        \* frames between novas (source: 6.0 s)
HIT_STOP == 1             \* frames a nova freezes the simulation (source: 0.1 s)
MaxSpeed == 3             \* cap on |vx|, |vy|, in arena units per frame

(* Program constants *)

PLAYER_BASE_HP == 100
BOSS_LOOP_INTERVAL == 5
BOSS_BASE_HP == 2000

MaxBullets == MaxEntities
MaxPickups == MaxEntities
MaxScore == 100 * MaxCombo
TimerFloor == 0 - (CHIP_DELAY + 1)

---------------------------------------------------------------------------
(* Static tables *)

LORE_DATABASE == <<"LOG_01">>     \* the first of its six entries

GEAR_POOL == <<"dmg_boost", "speed_boost", "fire_rate", "plasma_siphon",
               "grav_dash", "multi_shot", "piercing", "homing", "orbitals",
               "dash_cooldown", "corrupted_power">>

(* bindEvents: what it registers, and what it records in eventListeners. *)
RegisteredListeners ==
  {"window:keydown", "window:keyup", "window:resize", "window:blur",
   "canvas:mousemove", "canvas:mousedown", "canvas:mouseup",
   "canvas:contextmenu"}

eventListeners == {"window:keydown", "window:keyup", "window:resize"}

Min(a, b) == IF a < b THEN a ELSE b

(* Upgrade.apply of each GEAR_POOL entry, on the player record. *)
GearApply(id, p) ==
  CASE id = "dmg_boost"       -> [p EXCEPT !.damageMult = @ + 250]
    [] id = "speed_boost"     -> [p EXCEPT !.speedMult = @ + 200]
    [] id = "fire_rate"       -> [p EXCEPT !.fireRateMult = @ + 200]
    [] id = "plasma_siphon"   -> [p EXCEPT !.lifesteal = @ + 50]
    [] id = "grav_dash"       -> [p EXCEPT !.gravDash = TRUE]
    [] id = "multi_shot"      -> [p EXCEPT !.projectileCount = @ + 1,
                                           !.damageMult = (@ * 85) \div 100]
    [] id = "piercing"        -> [p EXCEPT !.piercing = 1]
    [] id = "homing"          -> [p EXCEPT !.homing = 1]
    [] id = "orbitals"        -> [p EXCEPT !.orbitals = @ + 1]
    [] id = "dash_cooldown"   -> [p EXCEPT !.dashCooldownMult = (@ * 7) \div 10]
    [] id = "corrupted_power" ->
         LET m == p.maxHp \div 2
         IN  [p EXCEPT !.damageMult = @ * 2, !.maxHp = m, !.hp = Min(p.hp, m)]

(* The fields of the player that make up the stat bundle. *)
StatFields == {"speedMult", "damageMult", "fireRateMult", "projectileCount",
               "piercing", "dashCooldownMult", "homing", "orbitals",
               "lifesteal", "gravDash"}

StatBundle(p) == [f \in StatFields |-> p[f]]

(* GameEngine.player as constructed. *)
InitialPlayer ==
  [hp |-> PLAYER_BASE_HP, maxHp |-> PLAYER_BASE_HP, xp |-> 0,
   overdriveTimer |-> 0, dashing |-> FALSE,
   dashTimer |-> 0, dashCooldownTimer |-> 0, novaCooldownTimer |-> 0,
   speedMult |-> 1000, damageMult |-> 1000, fireRateMult |-> 1000,
   projectileCount |-> 1, piercing |-> 0, dashCooldownMult |-> 1000,
   homing |-> 0, orbitals |-> 0, lifesteal |-> 0, gravDash |-> FALSE]

Bind(S, F(_)) == UNION {F(w) : w \in S}

---------------------------------------------------------------------------
(* The log: what the current step did (op, arg, threw, updates, emitted) and *)
(* four history fields that outlive the step: gameOver (game-over was      *)
(* emitted since the last restart), levelUps (level-ups emitted and not    *)
(* yet answered by applyUpgrade, counted up to 2), warnings                *)
(* (danger-warnings emitted since the last loop-changed or restart,        *)
(* counted up to 2) and saved (the engine's progress when saveCheckpoint   *)
(* last ran).                                                              *)

Emit(W, h) == [W EXCEPT !.log.emitted = Append(@, h)]

BeginStep(W, name) ==
  [W EXCEPT !.log.op = name, !.log.arg = 0, !.log.threw = FALSE,
            !.log.updates = 0, !.log.emitted = <<>>]

WithArg(W, a) == [W EXCEPT !.log.arg = a]

---------------------------------------------------------------------------
(* App.tsx: the StatHooks handed to the engine. *)

onHealthChange(W, curr, max) ==
  Emit([W EXCEPT !.app.health = curr, !.app.maxHealth = max],
       [hook |-> "onHealthChange", current |-> curr, max |-> max])

onScoreChange(W, s) ==
  Emit([W EXCEPT !.app.score = s], [hook |-> "onScoreChange", total |-> s])

onLoopChange(W, l, t) ==
  Emit([W EXCEPT !.log.warnings = 0], [hook |-> "onLoopChange", loop |-> l, timeRemaining |-> t])

onGameOver(W, finalStats) ==
  Emit([W EXCEPT !.app.gameState = "GAME_OVER", !.app.score = finalStats.score,
                 !.log.gameOver = TRUE],
       [hook |-> "onGameOver", finalStats |-> finalStats])

onLevelUp(W) ==
  Emit([W EXCEPT !.app.gameState = "LEVEL_UP",
                 !.log.levelUps = Min(@ + 1, 2)],
       [hook |-> "onLevelUp"])

onPauseToggle(W, paused) ==
  Emit([W EXCEPT !.app.gameState = IF paused THEN "PAUSED" ELSE "PLAYING"],
       [hook |-> "onPauseToggle", isPaused |-> paused])

onXpChange(W, curr, max) ==
  Emit(W, [hook |-> "onXpChange", current |-> curr, max |-> max, level |-> 0])

onDangerWarning(W) ==
  Emit([W EXCEPT !.log.warnings = Min(@ + 1, 2)], [hook |-> "onDangerWarning"])

onLoreUnlock(W, id) ==
  Emit([W EXCEPT !.app.currentLoreFragment = id],
       [hook |-> "onLoreUnlock", fragment |-> id])

onStoryTrigger(W, beat) ==
  Emit([W EXCEPT !.app.activeStoryBeat = beat, !.app.gameState = "CUTSCENE"],
       [hook |-> "onStoryTrigger", beat |-> beat])

---------------------------------------------------------------------------
(* Persistence.  An item of localStorage is a record: kind "null" (no      *)
(* item), "garbage" (text JSON.parse rejects) or "object" (a JSON object   *)
(* with the keys it has as fields).                                        *)

RECURSIVE SetToSeq(_)
SetToSeq(S) ==
  IF S = {} THEN <<>>
  ELSE LET x == CHOOSE y \in S : TRUE IN <<x>> \o SetToSeq(S \ {x})

SeqToSet(s) == {s[i] : i \in 1..Len(s)}

(* The CheckpointData literal built by saveCheckpoint. *)
CheckpointOf(e) ==
  [loop |-> e.loopCount,
   score |-> e.score,
   playerStats |->
     [hp |-> e.player.hp, maxHp |-> e.player.maxHp, xp |-> e.player.xp,
      speedMult |-> e.player.speedMult, damageMult |-> e.player.damageMult,
      fireRateMult |-> e.player.fireRateMult,
      projectileCount |-> e.player.projectileCount,
      piercing |-> e.player.piercing,
      dashCooldownMult |-> e.player.dashCooldownMult,
      homing |-> e.player.homing, orbitals |-> e.player.orbitals,
      lifesteal |-> e.player.lifesteal, gravDash |-> e.player.gravDash],
   collectedLore |-> SetToSeq(e.unlockedLoreIds)]

JSONstringify(data) ==
  [kind |-> "object", loop |-> data.loop, score |-> data.score,
   playerStats |-> data.playerStats, collectedLore |-> data.collectedLore]

(* What the engine holds that a checkpoint is meant to carry. *)
Progress(e) ==
  [valid |-> TRUE, loopCount |-> e.loopCount, score |-> e.score,
   hp |-> e.player.hp, maxHp |-> e.player.maxHp, xp |-> e.player.xp,
   stats |-> StatBundle(e.player), lore |-> e.unlockedLoreIds]

saveCheckpoint(W) ==
  [W EXCEPT !.browser.checkpoint = JSONstringify(CheckpointOf(W.engine)),
            !.log.saved = Progress(W.engine)]

saveGlobalProgress(W) ==
  [W EXCEPT !.browser.intro = [kind |-> "object", seen |-> W.engine.hasSeenIntro]]

playCutscene(W, beat) ==
  onStoryTrigger([W EXCEPT !.engine.isInCutscene = TRUE], beat)

resumeFromCutscene(W) == [W EXCEPT !.engine.isInCutscene = FALSE]

---------------------------------------------------------------------------
(* Damage, loop transitions, spawning. *)

takeDamage(W, amount) ==
  IF W.engine.player.hp <= 0 THEN W
  ELSE LET W1 == [W EXCEPT !.engine.player.hp = @ - amount]
           W2 == onHealthChange(W1, W1.engine.player.hp, W1.engine.player.maxHp)
       IN  IF W2.engine.player.hp <= 0
           THEN onGameOver(W2, [score |-> W2.engine.score])
           ELSE W2

BossEnemy(loopCount) ==
  [type |-> "BOSS", hp |-> BOSS_BASE_HP * 500 * (2 + loopCount),
   maxHp |-> BOSS_BASE_HP * 500 * (2 + loopCount),
   attackTimer |-> BOSS_ATTACK_DELAY]

(* A spawnBoss that adds the boss to the enemies already there. *)
spawnBossKeepingEnemies(W) ==
  playCutscene([W EXCEPT !.engine.enemies =
                           Append(@, BossEnemy(W.engine.loopCount))],
               "BOSS_APPROACH")

spawnBoss(W) ==
  playCutscene([W EXCEPT !.engine.enemies = <<BossEnemy(W.engine.loopCount)>>],
               "BOSS_APPROACH")

(* A triggerLoopReset that also puts the player's stat bundle back. *)
triggerLoopResetRestoringStats(W) ==
  LET W1 == IF W.engine.loopCount = 1 THEN playCutscene(W, "LOOP_1_END") ELSE W
      W2 == [W1 EXCEPT !.engine.loopCount = @ + 1,
                       !.engine.loopTimer = LOOP_DURATION,
                       !.engine.difficultyMultiplier = @ + 1,
                       !.engine.warningTriggered = FALSE,
                       !.engine.player =
                          [f \in DOMAIN @ |->
                             IF f \in StatFields THEN InitialPlayer[f] ELSE @[f]]]
      W3 == saveCheckpoint(W2)
      W4 == IF W3.engine.loopCount % BOSS_LOOP_INTERVAL = 0
            THEN spawnBoss([W3 EXCEPT !.engine.isBossLoop = TRUE])
            ELSE onLevelUp(W3)
  IN  onLoopChange(W4, W4.engine.loopCount, W4.engine.loopTimer)

(* A triggerLoopReset that spawns the boss without raising isBossLoop. *)
triggerLoopResetLeavingBossLoopFlag(W) ==
  LET W1 == IF W.engine.loopCount = 1 THEN playCutscene(W, "LOOP_1_END") ELSE W
      W2 == [W1 EXCEPT !.engine.loopCount = @ + 1,
                       !.engine.loopTimer = LOOP_DURATION,
                       !.engine.difficultyMultiplier = @ + 1,
                       !.engine.warningTriggered = FALSE]
      W3 == saveCheckpoint(W2)
      W4 == IF W3.engine.loopCount % BOSS_LOOP_INTERVAL = 0
            THEN spawnBoss(W3)
            ELSE onLevelUp(W3)
  IN  onLoopChange(W4, W4.engine.loopCount, W4.engine.loopTimer)

triggerLoopReset(W) ==
  LET W1 == IF W.engine.loopCount = 1 THEN playCutscene(W, "LOOP_1_END") ELSE W
      W2 == [W1 EXCEPT !.engine.loopCount = @ + 1,
                       !.engine.loopTimer = LOOP_DURATION,
                       !.engine.difficultyMultiplier = @ + 1,
                       !.engine.warningTriggered = FALSE]
      W3 == saveCheckpoint(W2)
      W4 == IF W3.engine.loopCount % BOSS_LOOP_INTERVAL = 0
            THEN spawnBoss([W3 EXCEPT !.engine.isBossLoop = TRUE])
            ELSE onLevelUp(W3)
  IN  onLoopChange(W4, W4.engine.loopCount, W4.engine.loopTimer)

(* spawnEnemy: the type the roll (in hundredths) selects at this difficulty. *)
SpawnRolls == {50}

SpawnType(e, roll) ==
  LET d == e.loopCount * e.difficultyMultiplier   \* difficulty, in fifths
  IN  IF d > 40 /\ roll > 95 THEN "TANK"
      ELSE IF d > 30 /\ roll > 90 THEN "GUNNER"
      ELSE IF d > 20 /\ roll > 80 THEN "SNIPER"
      ELSE IF d > 10 /\ roll > 60 THEN "DASHER"
      ELSE "SWARMER"

BaseHp(type) ==
  CASE type = "SWARMER" -> 30 [] type = "DASHER" -> 50 [] type = "SNIPER" -> 40
    [] type = "GUNNER" -> 80 [] type = "TANK" -> 200

spawnEnemy(W, roll) ==
  LET type == SpawnType(W.engine, roll)
  IN  [W EXCEPT !.engine.enemies =
         Append(@, [type |-> type,
                    hp |-> BaseHp(type) * 200 * (4 + W.engine.loopCount),
                    maxHp |-> BaseHp(type) * 200 * (4 + W.engine.loopCount)])]

RemoveAt(s, i) == SubSeq(s, 1, i - 1) \o SubSeq(s, i + 1, Len(s))

(* bullets[i] = bullets[length - 1]; bullets.pop() *)
SwapRemove(s, i) ==
  IF i = Len(s) THEN SubSeq(s, 1, Len(s) - 1)
  ELSE SubSeq([s EXCEPT ![i] = s[Len(s)]], 1, Len(s) - 1)

(* killEnemy: the outcomes differ in the pickups the random drops leave. *)
killEnemy(W, j) ==
  LET e == W.engine.enemies[j]
      W1 == [W EXCEPT !.engine.enemies = RemoveAt(@, j),
                      !.engine.score = @ + 100 * W.engine.combo,
                      !.engine.combo = @ + 1,
                      !.engine.comboTimer = COMBO_WINDOW]
      W2 == onScoreChange(W1, W1.engine.score)
      steal == IF W2.engine.player.lifesteal > 0
               THEN {W2, [W2 EXCEPT !.engine.pickups = Append(@, "HEALTH")]}
               ELSE {W2}
      drop == {[w EXCEPT !.engine.pickups = Append(@, k)] :
                 w \in steal, k \in {"HEALTH", "DATA", "XP"}}
  IN  IF e.type = "BOSS"
      THEN {triggerLoopReset([w EXCEPT !.engine.isBossLoop = FALSE]) : w \in drop}
      ELSE drop

(* An activation that leaves the xp bar full. *)
activateOverdriveKeepingXp(W) ==
  onXpChange([W EXCEPT !.engine.player.overdriveTimer = OVERDRIVE_DURATION],
             XP_TO_OVERDRIVE, XP_TO_OVERDRIVE)

activateOverdrive(W) ==
  onXpChange([W EXCEPT !.engine.player.overdriveTimer = OVERDRIVE_DURATION,
                       !.engine.player.xp = 0],
             XP_TO_OVERDRIVE, XP_TO_OVERDRIVE)

fireBullet(W) ==
  LET p == W.engine.player
      count == IF p.overdriveTimer > 0 THEN p.projectileCount + 1
               ELSE p.projectileCount
      b == [isEnemy |-> FALSE, damage |-> 25 * p.damageMult]
  IN  [W EXCEPT !.engine.bullets = @ \o [k \in 1..count |-> b]]

fireEnemyBullet(W) ==
  [W EXCEPT !.engine.bullets = Append(@, [isEnemy |-> TRUE, damage |-> 15])]


---------------------------------------------------------------------------
(* update(dt): one simulation tick.  Each phase returns the set of its     *)
(* outcomes; which bullets, enemies and pickups overlap the player or each *)
(* other, whether the fire button is held and whether the spawn timer has  *)
(* run out are free.                                                       *)

(* togglePause as update calls it for a lore fragment: isPaused is FALSE   *)
(* there, so the call pauses and does not re-enter loop().                 *)
pauseForLore(W) ==
  IF W.engine.isInCutscene THEN W
  ELSE onPauseToggle([W EXCEPT !.engine.isPaused = TRUE], TRUE)

(* A timer phase that lets the expiry end a boss loop like any other. *)
timerPhaseIgnoringBoss(W, dt) ==
  LET W1 == [W EXCEPT !.engine.loopTimer = @ - dt]
      t  == W1.engine.loopTimer
      W2 == IF t <= DANGER_WINDOW /\ t > 0 /\ ~W1.engine.warningTriggered
            THEN onDangerWarning([W1 EXCEPT !.engine.warningTriggered = TRUE])
            ELSE W1
  IN  IF t <= 0 THEN triggerLoopReset(W2) ELSE W2

(* A timer phase that warns in every tick of the low-time window. *)
timerPhaseWarningEveryTick(W, dt) ==
  LET W1 == [W EXCEPT !.engine.loopTimer = @ - dt]
      t  == W1.engine.loopTimer
      W2 == IF t <= DANGER_WINDOW /\ t > 0
            THEN onDangerWarning([W1 EXCEPT !.engine.warningTriggered = TRUE])
            ELSE W1
  IN  IF t <= 0
      THEN IF ~W2.engine.isBossLoop THEN triggerLoopReset(W2)
           ELSE IF t < 0 - CHIP_DELAY THEN takeDamage(W2, 5) ELSE W2
      ELSE W2

timerPhase(W, dt) ==
  LET W1 == [W EXCEPT !.engine.loopTimer = @ - dt]
      t  == W1.engine.loopTimer
      W2 == IF t <= DANGER_WINDOW /\ t > 0 /\ ~W1.engine.warningTriggered
            THEN onDangerWarning([W1 EXCEPT !.engine.warningTriggered = TRUE])
            ELSE W1
  IN  IF t <= 0
      THEN IF ~W2.engine.isBossLoop THEN triggerLoopReset(W2)
           ELSE IF t < 0 - CHIP_DELAY THEN takeDamage(W2, 5) ELSE W2
      ELSE W2

overdrivePhase(W, dt) ==
  IF W.engine.player.overdriveTimer > 0
  THEN LET W1 == [W EXCEPT !.engine.player.overdriveTimer = @ - dt]
       IN  IF dt > 0
           THEN LET W2 == [W1 EXCEPT !.engine.player.hp =
                              Min(W1.engine.player.maxHp, @ + 2)]
                IN  onHealthChange(W2, W2.engine.player.hp, W2.engine.player.maxHp)
           ELSE W1
  ELSE W

(* Dash: Space starts one when the cooldown has run out; the player is     *)
(* dashing until dashTimer runs out.  dashCooldownTimer is only ever       *)
(* compared with 0, so it is not counted below 0.                          *)
dashPhase(W, dt) ==
  LET p  == W.engine.player
      W1 == IF W.engine.spaceDown /\ p.dashCooldownTimer <= 0 /\ ~p.dashing
            THEN [W EXCEPT
                    !.engine.player.dashing = TRUE,
                    !.engine.player.dashTimer = DASH_DURATION,
                    !.engine.player.dashCooldownTimer =
                      (DASH_COOLDOWN * p.dashCooldownMult) \div 1000,
                    !.engine.gravWells =
                      IF p.gravDash THEN Append(@, GRAV_WELL_LIFE) ELSE @]
            ELSE W
      W2 == IF W1.engine.player.dashing
            THEN LET W3 == [W1 EXCEPT !.engine.player.dashTimer = @ - dt]
                 IN  IF W3.engine.player.dashTimer <= 0
                     THEN [W3 EXCEPT !.engine.player.dashing = FALSE]
                     ELSE W3
            ELSE W1
  IN  [W2 EXCEPT !.engine.player.dashCooldownTimer =
         IF @ - dt < 0 THEN 0 ELSE @ - dt]

(* The first loop of triggerNova: from the last bullet down, an enemy      *)
(* bullet within the radius (its index is in nearB) is swapped out.        *)
RECURSIVE novaBullets(_, _, _)
novaBullets(bs, nearB, i) ==
  IF i = 0 THEN bs
  ELSE IF bs[i].isEnemy /\ i \in nearB
       THEN novaBullets(SwapRemove(bs, i), nearB, i - 1)
       ELSE novaBullets(bs, nearB, i - 1)

(* The second loop, `for (const e of this.enemies)`: the iterator visits   *)
(* position k of the array as it is when it gets there, so when killEnemy  *)
(* splices the enemy at k out, the one that slides into k is passed over.  *)
(* near[k] tells whether the enemy now at k is within the radius.          *)
RECURSIVE novaEnemies(_, _, _)
novaEnemies(W, near, k) ==
  IF k > Len(W.engine.enemies) THEN {W}
  ELSE IF near[k]
       THEN LET W1 == [W EXCEPT !.engine.enemies[k].hp = @ - 25000]
            IN  IF W1.engine.enemies[k].hp <= 0
                THEN UNION {novaEnemies(w, RemoveAt(near, k), k + 1) :
                              w \in killEnemy(W1, k)}
                ELSE novaEnemies(W1, near, k + 1)
       ELSE novaEnemies(W, near, k + 1)

(* triggerNova, for the bullets (nearB, indices) and the enemies (nearE,   *)
(* one flag per enemy) that are within PLAYER_NOVA_RADIUS of the player.   *)
triggerNova(W, nearB, nearE) ==
  LET W1 == [W EXCEPT !.engine.player.novaCooldownTimer = NOVA_COOLDOWN,
                      !.engine.hitStop = HIT_STOP,
                      !.engine.bullets = novaBullets(@, nearB, Len(@))]
  IN  novaEnemies(W1, nearE, 1)

(* Nova: KeyE or the right mouse button fires one when its cooldown has    *)
(* run out.  novaCooldownTimer is only ever compared with 0 or shown       *)
(* through Math.max(0, .), so it is not counted below 0.                   *)
novaPhase(W, dt) ==
  LET fired == IF W.engine.novaDown /\ W.engine.player.novaCooldownTimer <= 0
               THEN UNION {triggerNova(W, nearB, nearE) :
                             nearB \in SUBSET (1..Len(W.engine.bullets)),
                             nearE \in [1..Len(W.engine.enemies) -> BOOLEAN]}
               ELSE {W}
  IN  {[w EXCEPT !.engine.player.novaCooldownTimer =
          IF @ - dt < 0 THEN 0 ELSE @ - dt] : w \in fired}

(* Gravity wells, held as their remaining life: an expired well is removed. *)
gravWellsPhase(W, dt) ==
  LET aged == [k \in 1..Len(W.engine.gravWells) |-> W.engine.gravWells[k] - dt]
      Alive(life) == life > 0
  IN  [W EXCEPT !.engine.gravWells = SelectSeq(aged, Alive)]

(* fireTimer is not modelled: with the button held a tick may or may not fire. *)
firePhase(W) == IF W.engine.mouseDown THEN {W, fireBullet(W)} ELSE {W}

hitEnemy(W, i, j) ==
  LET b   == W.engine.bullets[i]
      dmg == IF W.engine.player.overdriveTimer > 0
             THEN (b.damage * 3) \div 2 ELSE b.damage
      W1  == [W EXCEPT !.engine.enemies[j].hp = @ - dmg]
      after == IF W1.engine.enemies[j].hp <= 0 THEN killEnemy(W1, j) ELSE {W1}
  IN  IF W.engine.player.piercing = 0
      THEN {[w EXCEPT !.engine.bullets = SwapRemove(@, i)] : w \in after}
      ELSE after

(* An enemy bullet that hurts the player whether dashing or not. *)
enemyBulletOverlapIgnoringDash(W, i) ==
  [takeDamage(W, W.engine.bullets[i].damage) EXCEPT
     !.engine.bullets = SwapRemove(@, i)]

(* Enemy bullet i overlaps the player. *)
enemyBulletOverlap(W, i) ==
  IF ~W.engine.player.dashing
  THEN [takeDamage(W, W.engine.bullets[i].damage) EXCEPT
          !.engine.bullets = SwapRemove(@, i)]
  ELSE W

bulletStep(W, i) ==
  LET b    == W.engine.bullets[i]
      gone == [W EXCEPT !.engine.bullets = SwapRemove(@, i)]
  IN  IF b.isEnemy
      THEN {W, gone, enemyBulletOverlap(W, i)}
      ELSE {W, gone} \cup
           UNION {hitEnemy(W, i, j) : j \in 1..Len(W.engine.enemies)}

RECURSIVE bulletsLoop(_, _)
bulletsLoop(W, i) ==
  IF i = 0 THEN {W}
  ELSE IF i > Len(W.engine.bullets) THEN bulletsLoop(W, i - 1)
  ELSE UNION {bulletsLoop(w, i - 1) : w \in bulletStep(W, i)}

(* A spawner that does not look for a boss. *)
spawnPhaseIgnoringBoss(W) ==
  {W} \cup {spawnEnemy(W, roll) : roll \in SpawnRolls}

spawnPhase(W) ==
  IF \E k \in 1..Len(W.engine.enemies) : W.engine.enemies[k].type = "BOSS"
  THEN {W}
  ELSE {W} \cup {spawnEnemy(W, roll) : roll \in SpawnRolls}

(* The boss's attack, Math.random() choosing the pattern: a ring of        *)
(* bullets, a burst of shots deferred with setTimeout, or summoned         *)
(* swarmers.                                                               *)
bossAttack(W) ==
  {[W EXCEPT !.engine.bullets =
      @ \o [k \in 1..BOSS_RING |-> [isEnemy |-> TRUE, damage |-> 20]]],
   [W EXCEPT !.browser.timeouts = @ + BOSS_BURST],
   [W EXCEPT !.engine.enemies =
      @ \o [k \in 1..BOSS_SUMMON |->
              [type |-> "SWARMER", hp |-> 30000 * W.engine.loopCount]]]}

(* The callback of a deferred burst shot. *)
burstShot(W) ==
  [W EXCEPT !.engine.bullets = Append(@, [isEnemy |-> TRUE, damage |-> 15])]

(* The player touching enemy i. *)
contact(W, i) ==
  LET e == W.engine.enemies[i]
  IN  IF ~W.engine.player.dashing
      THEN {takeDamage(W, IF e.type = "BOSS" THEN 25 ELSE 10)}
      ELSE IF e.type # "BOSS"
           THEN LET W1 == [W EXCEPT !.engine.enemies[i].hp = @ - 50000]
                IN  IF W1.engine.enemies[i].hp <= 0 THEN killEnemy(W1, i)
                    ELSE {W1}
           ELSE {[W EXCEPT !.engine.enemies[i].hp = @ - 25000]}

(* The boss attacks when its attackTimer has run out; the other enemies'   *)
(* attack timers are not modelled, a gunner may or may not fire.           *)
enemyStep(W, i, dt) ==
  LET e == W.engine.enemies[i]
      W1 == [W EXCEPT !.engine.enemies[i].attackTimer = @ - dt]
      acted == IF e.type = "BOSS"
               THEN IF W1.engine.enemies[i].attackTimer <= 0
                    THEN bossAttack([W1 EXCEPT !.engine.enemies[i].attackTimer =
                                                 BOSS_ATTACK_PERIOD])
                    ELSE {W1}
               ELSE IF e.type = "GUNNER" THEN {W, fireEnemyBullet(W)}
               ELSE {W}
  IN  acted \cup UNION {contact(w, i) : w \in acted}

RECURSIVE enemiesLoop(_, _, _)
enemiesLoop(W, i, dt) ==
  IF i = 0 THEN {W}
  ELSE IF i > Len(W.engine.enemies) THEN enemiesLoop(W, i - 1, dt)
  ELSE UNION {enemiesLoop(w, i - 1, dt) : w \in enemyStep(W, i, dt)}

collect(W, kind) ==
  CASE kind = "HEALTH" ->
         LET W1 == [W EXCEPT !.engine.player.hp =
                       Min(W.engine.player.maxHp, @ + 20)]
         IN  {onHealthChange(W1, W1.engine.player.hp, W1.engine.player.maxHp)}
    [] kind = "XP" ->
         IF W.engine.player.overdriveTimer <= 0
         THEN LET W1 == [W EXCEPT !.engine.player.xp = @ + 1]
                  W2 == IF W1.engine.player.xp >= XP_TO_OVERDRIVE
                        THEN activateOverdrive(W1) ELSE W1
              IN  {onXpChange(W2, W2.engine.player.xp, XP_TO_OVERDRIVE)}
         ELSE {W}
    [] kind = "DATA" ->
         LET available == {l \in SeqToSet(LORE_DATABASE) :
                             l \notin W.engine.unlockedLoreIds}
         IN  IF available # {}
             THEN IF W.engine.isPaused THEN {}   \* second fragment of a tick
                  ELSE
                  {pauseForLore(onLoreUnlock(
                     [W EXCEPT !.engine.unlockedLoreIds = @ \cup {l}], l)) :
                   l \in available}
             ELSE {[W EXCEPT !.engine.player.xp = @ + XP_TO_OVERDRIVE \div 2]}

pickupStep(W, i) ==
  {W} \cup {[w EXCEPT !.engine.pickups = SwapRemove(@, i)] :
              w \in collect(W, W.engine.pickups[i])}

RECURSIVE pickupsLoop(_, _)
pickupsLoop(W, i) ==
  IF i = 0 THEN {W}
  ELSE IF i > Len(W.engine.pickups) THEN pickupsLoop(W, i - 1)
  ELSE UNION {pickupsLoop(w, i - 1) : w \in pickupStep(W, i)}

comboPhase(W, dt) ==
  IF W.engine.combo > 0
  THEN LET W1 == [W EXCEPT !.engine.comboTimer = @ - dt]
       IN  IF W1.engine.comboTimer <= 0 THEN [W1 EXCEPT !.engine.combo = 0]
           ELSE W1
  ELSE W

(* A frozen tick that lets the loop timer run. *)
hitStopTickMovingTimer(W, dt) ==
  [W EXCEPT !.engine.hitStop = @ - dt, !.engine.loopTimer = @ - dt]

(* The tick while hitStop > 0 (globalTime and screenshake are not held). *)
hitStopTick(W, dt) == [W EXCEPT !.engine.hitStop = @ - dt]

update(W, dt) ==
  LET W0 == [W EXCEPT !.log.updates = @ + 1]
  IN  IF W0.engine.hitStop > 0
      THEN {hitStopTick(W0, dt)}
      ELSE LET A == {gravWellsPhase(w, dt) :
                       w \in novaPhase(
                              dashPhase(overdrivePhase(timerPhase(W0, dt), dt),
                                        dt), dt)}
               B == Bind(A, firePhase)
               C == UNION {bulletsLoop(w, Len(w.engine.bullets)) : w \in B}
               \* an enemy is spawned outside the canvas, out of the player's
               \* reach in this tick: the contact loop starts below it
               E == UNION {UNION {enemiesLoop(v, Len(w.engine.enemies), dt) :
                                    v \in spawnPhase(w)} : w \in C}
               F == UNION {pickupsLoop(w, Len(w.engine.pickups)) : w \in E}
           IN  {comboPhase(w, dt) : w \in F}

requestAnimationFrame(W) == [W EXCEPT !.browser.rafPending = @ + 1]

(* loop() as the earlier revision of the engine had it: no cutscene test. *)
loopIgnoringCutscene(W, dt) ==
  IF ~W.engine.isRunning \/ W.engine.isPaused
  THEN {W}
  ELSE {requestAnimationFrame(w) : w \in update(W, dt)}

loop(W, dt) ==
  IF ~W.engine.isRunning \/ W.engine.isPaused \/ W.engine.isInCutscene
  THEN {W}
  ELSE {requestAnimationFrame(w) : w \in update(W, dt)}

togglePause(W) ==
  IF W.engine.isInCutscene THEN {W}
  ELSE LET W1 == [W EXCEPT !.engine.isPaused = ~@]
           W2 == onPauseToggle(W1, W1.engine.isPaused)
       IN  IF ~W2.engine.isPaused THEN loop(W2, 0) ELSE {W2}

start(W) ==
  IF W.engine.isRunning THEN {W}
  ELSE LET W1 == [W EXCEPT !.engine.isRunning = TRUE, !.engine.isPaused = FALSE]
           W2 == IF ~W1.engine.hasSeenIntro
                 THEN saveGlobalProgress(
                        [playCutscene(W1, "INTRO") EXCEPT
                           !.engine.hasSeenIntro = TRUE])
                 ELSE saveCheckpoint(W1)
       IN  loop(W2, 0)

(* A reset that leaves the entity collections as they are. *)
resetKeepingEntities(W) ==
  LET p  == W.engine.player
      W1 == [W EXCEPT
               !.engine.player =
                 [p EXCEPT !.hp = PLAYER_BASE_HP, !.maxHp = PLAYER_BASE_HP,
                           !.xp = 0, !.dashing = FALSE, !.overdriveTimer = 0,
                           !.novaCooldownTimer = 0,
                           !.speedMult = 1000, !.damageMult = 1000,
                           !.fireRateMult = 1000, !.projectileCount = 1,
                           !.piercing = 0, !.homing = 0, !.orbitals = 0,
                           !.lifesteal = 0, !.gravDash = FALSE],
               !.engine.score = 0, !.engine.combo = 0,
               !.engine.comboTimer = 0, !.engine.loopCount = 1,
               !.engine.loopTimer = LOOP_DURATION,
               !.engine.difficultyMultiplier = 5, !.engine.hitStop = 0,
               !.engine.warningTriggered = FALSE, !.engine.isBossLoop = FALSE]
      W2 == onHealthChange(W1, W1.engine.player.hp, W1.engine.player.maxHp)
      W3 == onScoreChange(W2, 0)
  IN  onXpChange(W3, 0, XP_TO_OVERDRIVE)

stop(W) == [W EXCEPT !.engine.isRunning = FALSE]

destroy(W) ==
  [stop(W) EXCEPT !.browser.listeners = @ \ eventListeners]

reset(W) ==
  LET p  == W.engine.player
      W1 == [W EXCEPT
               !.engine.player =
                 [p EXCEPT !.hp = PLAYER_BASE_HP, !.maxHp = PLAYER_BASE_HP,
                           !.xp = 0, !.dashing = FALSE, !.overdriveTimer = 0,
                           !.novaCooldownTimer = 0,
                           !.speedMult = 1000, !.damageMult = 1000,
                           !.fireRateMult = 1000, !.projectileCount = 1,
                           !.piercing = 0, !.homing = 0, !.orbitals = 0,
                           !.lifesteal = 0, !.gravDash = FALSE],
               !.engine.enemies = <<>>, !.engine.bullets = <<>>,
               !.engine.pickups = <<>>, !.engine.gravWells = <<>>,
               !.engine.score = 0, !.engine.combo = 0,
               !.engine.comboTimer = 0, !.engine.loopCount = 1,
               !.engine.loopTimer = LOOP_DURATION,
               !.engine.difficultyMultiplier = 5, !.engine.hitStop = 0,
               !.engine.warningTriggered = FALSE, !.engine.isBossLoop = FALSE]
      W2 == onHealthChange(W1, W1.engine.player.hp, W1.engine.player.maxHp)
      W3 == onScoreChange(W2, 0)
  IN  onXpChange(W3, 0, XP_TO_OVERDRIVE)

Throw(W) == [W EXCEPT !.log.threw = TRUE]

(* r.f || d where d is the only falsy value r.f can hold (0, false): the    *)
(* default replaces a missing property.                                    *)
OrElse(r, f, d) == IF f \in DOMAIN r THEN r[f] ELSE d

(* A restore that forgets the current hit points. *)
RestorePlayerStatsKeepingHp(p, ps) ==
  [p EXCEPT !.maxHp = ps.maxHp, !.xp = ps.xp,
            !.speedMult = ps.speedMult, !.damageMult = ps.damageMult,
            !.fireRateMult = ps.fireRateMult,
            !.projectileCount = ps.projectileCount,
            !.piercing = ps.piercing,
            !.dashCooldownMult = ps.dashCooldownMult,
            !.homing = ps.homing, !.orbitals = ps.orbitals,
            !.lifesteal = OrElse(ps, "lifesteal", 0),
            !.gravDash = OrElse(ps, "gravDash", FALSE)]

(* The assignments of loadCheckpoint to this.player. *)
RestorePlayerStats(p, ps) ==
  [p EXCEPT !.hp = ps.hp, !.maxHp = ps.maxHp, !.xp = ps.xp,
            !.speedMult = ps.speedMult, !.damageMult = ps.damageMult,
            !.fireRateMult = ps.fireRateMult,
            !.projectileCount = ps.projectileCount,
            !.piercing = ps.piercing,
            !.dashCooldownMult = ps.dashCooldownMult,
            !.homing = ps.homing, !.orbitals = ps.orbitals,
            !.lifesteal = OrElse(ps, "lifesteal", 0),
            !.gravDash = OrElse(ps, "gravDash", FALSE)]

loadCheckpoint(W) ==
  LET raw == W.browser.checkpoint
  IN  IF raw.kind = "null" THEN start(reset(W))
      ELSE IF raw.kind = "garbage" THEN {Throw(W)}     \* JSON.parse throws
      ELSE
        LET data == raw
            W1 == [W EXCEPT !.engine.loopCount = data.loop,
                            !.engine.score = data.score,
                            !.engine.difficultyMultiplier = 5 + data.loop]
        IN  IF "playerStats" \notin DOMAIN data
            THEN {Throw(W1)}                 \* data.playerStats is undefined
            ELSE
              LET ps == data.playerStats
                  W2 == [W1 EXCEPT
                           !.engine.player = RestorePlayerStats(@, ps),
                           !.engine.unlockedLoreIds = SeqToSet(data.collectedLore),
                           !.engine.enemies = <<>>, !.engine.bullets = <<>>,
                           !.engine.pickups = <<>>, !.engine.gravWells = <<>>,
                           !.engine.loopTimer = LOOP_DURATION,
                           !.engine.isBossLoop =
                             (data.loop % BOSS_LOOP_INTERVAL = 0)]
                  W3 == IF W2.engine.isBossLoop THEN spawnBoss(W2) ELSE W2
              IN  {onLoopChange(
                     onHealthChange(w, w.engine.player.hp, w.engine.player.maxHp),
                     w.engine.loopCount, w.engine.loopTimer) : w \in start(W3)}

(* An applyUpgrade that writes the checkpoint before it applies the gear. *)
applyUpgradeSavingFirst(W, id) ==
  [saveCheckpoint(W) EXCEPT !.engine.player = GearApply(id, @),
                            !.log.levelUps = 0]

applyUpgrade(W, id) ==
  saveCheckpoint([W EXCEPT !.engine.player = GearApply(id, @),
                           !.log.levelUps = 0])

---------------------------------------------------------------------------
(* Initial state: the page has loaded, App has constructed the engine.     *)

NoItem == [kind |-> "null"]
Garbage == [kind |-> "garbage"]
PartialBlob == [kind |-> "object", loop |-> 2, score |-> 100]

(* A checkpoint an earlier session left behind. *)
BlobA ==
  [kind |-> "object", loop |-> 2, score |-> 100,
   playerStats |->
     [hp |-> 5, maxHp |-> 10, xp |-> 1, speedMult |-> 1200,
      damageMult |-> 1700, fireRateMult |-> 1400, projectileCount |-> 2,
      piercing |-> 1, dashCooldownMult |-> 700, homing |-> 1, orbitals |-> 3,
      lifesteal |-> 50, gravDash |-> TRUE],
   collectedLore |-> <<"LOG_01">>]

IntroSeen == [kind |-> "object", seen |-> TRUE]

InitialStorage ==
  {[checkpoint |-> c, intro |-> i, rafPending |-> 0, timeouts |-> 0,
    listeners |-> RegisteredListeners] :
     c \in {NoItem, Garbage, PartialBlob, BlobA}, i \in {NoItem, IntroSeen}}

(* loadGlobalProgress, called by the constructor *)
loadGlobalProgress(b) == IF b.intro.kind = "object" THEN b.intro.seen ELSE FALSE

InitialEngine(b) ==
  [isRunning |-> FALSE, isPaused |-> FALSE, isInCutscene |-> FALSE,
   hitStop |-> 0, loopTimer |-> LOOP_DURATION, loopCount |-> 1,
   warningTriggered |-> FALSE, isBossLoop |-> FALSE,
   hasSeenIntro |-> loadGlobalProgress(b), mouseDown |-> FALSE,
   spaceDown |-> FALSE, novaDown |-> FALSE,
   player |-> InitialPlayer,
   enemies |-> <<>>, bullets |-> <<>>, pickups |-> <<>>, gravWells |-> <<>>,
   score |-> 0, difficultyMultiplier |-> 5, combo |-> 0, comboTimer |-> 0,
   unlockedLoreIds |-> {}]

InitialApp ==
  [gameState |-> "MENU", health |-> 100, maxHealth |-> 100, score |-> 0,
   activeStoryBeat |-> "none", currentLoreFragment |-> "none"]

InitialLog ==
  [op |-> "init", arg |-> 0, threw |-> FALSE, updates |-> 0, emitted |-> <<>>,
   gameOver |-> FALSE, levelUps |-> 0, warnings |-> 0,
   saved |-> [valid |-> FALSE]]

Init ==
  /\ browser \in InitialStorage
  /\ engine = InitialEngine(browser)
  /\ app = InitialApp
  /\ log = InitialLog

---------------------------------------------------------------------------
(* Actions: one per event handler. *)

World == [engine |-> engine, app |-> app, browser |-> browser, log |-> log]

Bounded(w) ==
  /\ Cardinality({k \in 1..Len(w.engine.enemies) :
                    w.engine.enemies[k].type # "BOSS"}) <= MaxEntities
  /\ Len(w.engine.bullets) <= MaxBullets
  /\ Len(w.engine.pickups) <= MaxPickups
  /\ w.engine.combo <= MaxCombo
  /\ w.engine.score <= MaxScore
  /\ w.engine.loopCount <= MaxLoop
  /\ w.engine.loopTimer >= TimerFloor
  /\ w.browser.rafPending <= MaxRaf
  /\ w.browser.timeouts <= BOSS_BURST

Commit(S) ==
  \E w \in S :
    /\ Bounded(w)
    /\ engine' = w.engine
    /\ app' = w.app
    /\ browser' = w.browser
    /\ log' = w.log

(* What Overlay.tsx and StoryOverlay.tsx put on top of the canvas. *)
LoreModal == app.currentLoreFragment # "none"
MenuOnTop == ~LoreModal /\ app.gameState \notin {"PLAYING", "CUTSCENE"}
StoryOnTop ==
  /\ app.activeStoryBeat # "none"
  /\ ~LoreModal
  /\ app.gameState \in {"PLAYING", "CUTSCENE"}

(* getRandomUpgrades offers three entries of GEAR_POOL; the runs explored  *)
(* are those in which the player picks this one.                           *)
OfferedUpgrades == {g \in SeqToSet(GEAR_POOL) : g = "corrupted_power"}

Restarting(W) ==
  [W EXCEPT !.log.gameOver = FALSE, !.log.levelUps = 0, !.log.warnings = 0]

(* App.handleStart, behind START (menu) and REBOOT (FRESH) (game over) *)
HandleStart ==
  /\ MenuOnTop
  /\ app.gameState \in {"MENU", "GAME_OVER"}
  /\ Commit({[w EXCEPT !.app.gameState = "PLAYING"] :
               w \in start(reset(Restarting(BeginStep(World, "start"))))})

(* App.handleLoadCheckpoint, behind REBOOT (CHECKPOINT) *)
HandleLoadCheckpoint ==
  /\ MenuOnTop
  /\ app.gameState = "GAME_OVER"
  /\ Commit({IF w.log.threw THEN w ELSE [w EXCEPT !.app.gameState = "PLAYING"] :
               w \in loadCheckpoint(
                       Restarting(BeginStep(World, "loadCheckpoint")))})

(* App.handleResume, behind RESUME on the pause menu *)
HandleResume ==
  /\ MenuOnTop
  /\ app.gameState = "PAUSED"
  /\ Commit({[w EXCEPT !.app.currentLoreFragment = "none"] :
               w \in togglePause(BeginStep(World, "togglePause"))})

(* App.handleUpgradeSelect, behind the upgrade cards *)
HandleUpgradeSelect ==
  /\ MenuOnTop
  /\ app.gameState = "LEVEL_UP"
  /\ \E id \in OfferedUpgrades :
       Commit({[applyUpgrade(BeginStep(World, "applyUpgrade"), id)
                  EXCEPT !.app.gameState = "PLAYING"]})

(* App.handleCloseLore, behind the lore modal.  A fragment is unlocked by   *)
(* a DATA pickup, which only a kill drops: the modal never shows in Spec,  *)
(* it does in SpecArena.                                                   *)
HandleCloseLore ==
  /\ LoreModal
  /\ Commit(togglePause([BeginStep(World, "togglePause")
                           EXCEPT !.app.currentLoreFragment = "none"]))

(* App.handleStoryComplete, after the last line of a story beat *)
HandleStoryComplete ==
  /\ StoryOnTop
  /\ Commit({[resumeFromCutscene(BeginStep(World, "resumeFromCutscene"))
                EXCEPT !.app.activeStoryBeat = "none",
                       !.app.gameState = "PLAYING"]})

(* keydown listener, Escape *)
KeyEscape ==
  /\ "window:keydown" \in browser.listeners
  /\ Commit(togglePause(BeginStep(World, "togglePause")))

(* The body of the blur listener: keys = {}, then the guarded togglePause. *)
blur(W) ==
  LET W0 == [W EXCEPT !.engine.spaceDown = FALSE]
  IN  IF W0.engine.isRunning /\ ~W0.engine.isInCutscene
      THEN togglePause(W0) ELSE {W0}

(* blur listener *)
WindowBlur ==
  /\ "window:blur" \in browser.listeners
  /\ Commit(blur(BeginStep(World, "togglePause")))

(* The browser runs a pending animation-frame callback: loop(). *)
Frame ==
  /\ browser.rafPending > 0
  /\ Commit(loop([BeginStep(World, "loop")
                    EXCEPT !.browser.rafPending = @ - 1], 1))

(* The browser runs a due setTimeout callback of the boss's burst. *)
BurstShot ==
  /\ browser.timeouts > 0
  /\ Commit({burstShot([BeginStep(World, "timeout")
                          EXCEPT !.browser.timeouts = @ - 1])})

(* Spec follows a run up to the boss loop; the boss fight is SpecBoss. *)
PlayFrame == Frame /\ engine'.loopCount < BOSS_LOOP_INTERVAL

Next ==
  \/ HandleStart
  \/ HandleLoadCheckpoint
  \/ HandleResume
  \/ HandleUpgradeSelect
  \/ HandleStoryComplete
  \/ KeyEscape
  \/ WindowBlur
  \/ PlayFrame

Spec == Init /\ [][Next]_vars

---------------------------------------------------------------------------
(* Scenario A of the specification: takeDamage called directly on a        *)
(* running engine with a fresh player, for the amounts the engine itself   *)
(* passes (5, 10, 15, 25) and those of the scenario (30, 80).              *)

DamageAmounts == {5, 10, 15, 25, 30, 80}
ScenarioScores == {0, 100, 300}

InitDamage ==
  /\ browser = [checkpoint |-> NoItem, intro |-> IntroSeen, rafPending |-> 0, timeouts |-> 0,
                listeners |-> RegisteredListeners]
  /\ \E s \in ScenarioScores, l \in 1..MaxLoop :
       engine = [InitialEngine(browser) EXCEPT !.isRunning = TRUE,
                                               !.score = s, !.loopCount = l]
  /\ app = [InitialApp EXCEPT !.gameState = "PLAYING"]
  /\ log = InitialLog

TakeDamage ==
  \E amount \in DamageAmounts :
    Commit({takeDamage(WithArg(BeginStep(World, "takeDamage"), amount), amount)})

NextDamage == TakeDamage

SpecDamage == InitDamage /\ [][NextDamage]_vars

---------------------------------------------------------------------------
(* The arena: a run in progress, with the fire button and the dash key in  *)
(* play.  It starts either in loop 1, where an earlier kill may have left  *)
(* a DATA pickup on the canvas, or in the boss fight of loop 5 with the    *)
(* boss worn down to its last hit points (BossLastHp, in thousandths: one  *)
(* or two bullets or dash rams away from 0).  The intro has been seen and  *)
(* storage holds the checkpoint written when the loop began.               *)

BossLastHp == {25000, 50000}

ArenaEngine(l, t, h, pk) ==
  LET b == [checkpoint |-> NoItem, intro |-> IntroSeen, rafPending |-> 1, timeouts |-> 0,
            listeners |-> RegisteredListeners]
      boss == l % BOSS_LOOP_INTERVAL = 0
  IN  [InitialEngine(b) EXCEPT
         !.isRunning = TRUE, !.loopCount = l, !.loopTimer = t,
         !.difficultyMultiplier = 5 + (l - 1), !.isBossLoop = boss,
         !.enemies = IF boss
                       THEN <<[BossEnemy(l) EXCEPT
                                 !.hp = h, !.attackTimer = BOSS_ATTACK_PERIOD]>>
                       ELSE <<>>,
         !.pickups = pk]

(* What earlier kills of loop 1 have left: nothing; a DATA pickup; a DATA  *)
(* pickup when every lore fragment is unlocked and the xp bar is one short *)
(* of full; an XP pickup with the bar one short of full.                   *)
ArenaScenes ==
  {[pickups |-> <<>>, xp |-> 0, lore |-> {}],
   [pickups |-> <<"DATA">>, xp |-> 0, lore |-> {}],
   [pickups |-> <<"DATA">>, xp |-> XP_TO_OVERDRIVE - 1,
    lore |-> SeqToSet(LORE_DATABASE)],
   [pickups |-> <<"XP">>, xp |-> XP_TO_OVERDRIVE - 1, lore |-> {}]}

InitArena ==
  /\ \E l \in {1, BOSS_LOOP_INTERVAL}, t \in 1..LOOP_DURATION,
        h \in BossLastHp, sc \in ArenaScenes :
       /\ l = 1 => h = 25000
       /\ l # 1 => sc = [pickups |-> <<>>, xp |-> 0, lore |-> {}]
       /\ engine = [ArenaEngine(l, t, h, sc.pickups) EXCEPT
                      !.player.xp = sc.xp, !.unlockedLoreIds = sc.lore]
  /\ browser = [checkpoint |->
                  JSONstringify(CheckpointOf(
                    [engine EXCEPT !.loopTimer = LOOP_DURATION,
                                   !.enemies = <<>>, !.pickups = <<>>])),
                intro |-> IntroSeen, rafPending |-> 1, timeouts |-> 0,
                listeners |-> RegisteredListeners]
  /\ app = [InitialApp EXCEPT !.gameState = "PLAYING"]
  /\ log = [InitialLog EXCEPT !.saved = Progress(engine)]

(* The canvas receives the mouse only where no overlay covers it. *)
CanvasOnTop == ~LoreModal /\ ~MenuOnTop /\ ~StoryOnTop

(* mousedown / mouseup listeners of the canvas, left button *)
MouseDown ==
  /\ CanvasOnTop
  /\ "canvas:mousedown" \in browser.listeners
  /\ Commit({[BeginStep(World, "mousedown") EXCEPT !.engine.mouseDown = TRUE]})

MouseUp ==
  /\ CanvasOnTop
  /\ "canvas:mouseup" \in browser.listeners
  /\ Commit({[BeginStep(World, "mouseup") EXCEPT !.engine.mouseDown = FALSE]})

(* keydown / keyup listeners of the window, Space *)
KeyDownSpace ==
  /\ "window:keydown" \in browser.listeners
  /\ Commit({[BeginStep(World, "keydown") EXCEPT !.engine.spaceDown = TRUE]})

KeyUpSpace ==
  /\ "window:keyup" \in browser.listeners
  /\ Commit({[BeginStep(World, "keyup") EXCEPT !.engine.spaceDown = FALSE]})

(* The arena is followed through the loop it starts in while its timer     *)
(* runs, up to and with the tick that ends it, and through what the        *)
(* overlays do after that.                                                 *)
ArenaLoops == {1, BOSS_LOOP_INTERVAL}

ArenaFrame == engine.loopCount \in ArenaLoops /\ engine.loopTimer > 0 /\ Frame

NextArena ==
  \/ ArenaFrame
  \/ BurstShot
  \/ MouseDown
  \/ MouseUp
  \/ KeyDownSpace
  \/ KeyUpSpace
  \/ HandleStoryComplete
  \/ HandleUpgradeSelect
  \/ HandleCloseLore

SpecArena == InitArena /\ [][NextArena]_vars

---------------------------------------------------------------------------
(* The boss fight as the page drives it: a run in the last tick of loop 4, *)
(* the transition into the boss loop, the boss's attacks, the timer        *)
(* running out below 0, pauses, death and the reload of the checkpoint.    *)
(* The fire button is never pressed, so the boss is not killed.            *)

InitBoss ==
  /\ engine = ArenaEngine(BOSS_LOOP_INTERVAL - 1, 1, 0, <<>>)
  /\ browser = [checkpoint |->
                  JSONstringify(CheckpointOf(
                    [engine EXCEPT !.loopTimer = LOOP_DURATION])),
                intro |-> IntroSeen, rafPending |-> 1, timeouts |-> 0,
                listeners |-> RegisteredListeners]
  /\ app = [InitialApp EXCEPT !.gameState = "PLAYING"]
  /\ log = [InitialLog EXCEPT !.saved = Progress(engine)]

(* A deferred shot is due within 200 ms, a fraction of the scaled frame:    *)
(* it runs before the next animation frame, though not before an event.    *)
BossFrame == browser.timeouts = 0 /\ Frame

NextBoss ==
  \/ BossFrame
  \/ BurstShot
  \/ KeyEscape
  \/ HandleStoryComplete
  \/ HandleLoadCheckpoint

SpecBoss == InitBoss /\ [][NextBoss]_vars

---------------------------------------------------------------------------
(* An upgrade chosen with a bullet in flight: loop 2 has just begun, the   *)
(* level-up screen is up, a swarmer is on the canvas and so is a bullet    *)
(* the player fired in loop 1, when piercing was 0.  The fire button is    *)
(* not pressed again, so every player bullet of these runs is that one.    *)

InitPierce ==
  /\ \E t \in 1..LOOP_DURATION :
       engine = fireBullet(spawnEnemy([engine |-> ArenaEngine(2, t, 0, <<>>)],
                                      50)).engine
  /\ browser = [checkpoint |->
                  JSONstringify(CheckpointOf(
                    [engine EXCEPT !.loopTimer = LOOP_DURATION])),
                intro |-> IntroSeen, rafPending |-> 1, timeouts |-> 0,
                listeners |-> RegisteredListeners]
  /\ app = [InitialApp EXCEPT !.gameState = "LEVEL_UP"]
  /\ log = [InitialLog EXCEPT !.saved = Progress(engine), !.levelUps = 1]

(* App.handleUpgradeSelect with the piercing card *)
SelectPiercing ==
  /\ MenuOnTop
  /\ app.gameState = "LEVEL_UP"
  /\ Commit({[applyUpgrade(BeginStep(World, "applyUpgrade"), "piercing")
                EXCEPT !.app.gameState = "PLAYING"]})

PierceFrame == engine.loopCount = 2 /\ engine.loopTimer > 0 /\ Frame

NextPierce ==
  \/ PierceFrame
  \/ SelectPiercing
  \/ HandleUpgradeSelect
  \/ HandleCloseLore

SpecPierce == InitPierce /\ [][NextPierce]_vars

---------------------------------------------------------------------------
(* The level-up screen: Overlay's effect draws the upgrades it offers when *)
(* gameState becomes LEVEL_UP.  [...GEAR_POOL].sort(() => 0.5 -            *)
(* Math.random()) reorders a copy of the pool, whatever the comparator     *)
(* answers, and slice(0, count) keeps its first count entries: the         *)
(* outcomes are the sequences of count different entries of the pool (all  *)
(* of it when count exceeds its length).  The draw is held in log.arg.     *)

(* A draw that may repeat an entry. *)
getRandomUpgradesWithRepeats(count) ==
  [1..count -> SeqToSet(GEAR_POOL)]

getRandomUpgrades(count) ==
  {u \in [1..Min(count, Len(GEAR_POOL)) -> SeqToSet(GEAR_POOL)] :
     \A i, j \in DOMAIN u : i # j => u[i] # u[j]}

(* The effect runs once for each change of gameState. *)
OfferUpgrades ==
  /\ app.gameState = "LEVEL_UP"
  /\ log.op # "getRandomUpgrades"
  /\ \E u \in getRandomUpgrades(3) :
       Commit({WithArg(BeginStep(World, "getRandomUpgrades"), u)})

NextDraw == OfferUpgrades

SpecDraw == InitPierce /\ [][NextDraw]_vars

---------------------------------------------------------------------------
(* The player's position.  The rest of the model leaves geometry free;     *)
(* here log.arg holds player.x, y, vx, vy on a small integer arena.  The   *)
(* velocity a tick moves the player by is what the keys, the friction and  *)
(* a dash impulse have made of the old one, and the contacts of the same   *)
(* tick add their knockback to it after the move: both are free within     *)
(* MaxSpeed.  reset() and loadCheckpoint() put the player in the centre.   *)

(* A position that is only kept from leaving on the far side. *)
clampToArenaFarSideOnly(v, size) == Min(size - PLAYER_RADIUS, v)

(* Math.max(radius, Math.min(size - radius, v)) *)
clampToArena(v, size) ==
  IF Min(size - PLAYER_RADIUS, v) < PLAYER_RADIUS THEN PLAYER_RADIUS
  ELSE Min(size - PLAYER_RADIUS, v)

Speeds == (0 - MaxSpeed)..MaxSpeed

Centre ==
  [x |-> CANVAS_WIDTH \div 2, y |-> CANVAS_HEIGHT \div 2, vx |-> 0, vy |-> 0]

(* the movement block of update, then the knockback of the contacts *)
movePlayer(p, vx, vy, kx, ky) ==
  [x |-> clampToArena(p.x + vx, CANVAS_WIDTH),
   y |-> clampToArena(p.y + vy, CANVAS_HEIGHT),
   vx |-> kx, vy |-> ky]

InitMove ==
  /\ engine = ArenaEngine(1, LOOP_DURATION, 0, <<>>)
  /\ browser = [checkpoint |-> NoItem, intro |-> IntroSeen, rafPending |-> 1,
                timeouts |-> 0, listeners |-> RegisteredListeners]
  /\ app = [InitialApp EXCEPT !.gameState = "PLAYING"]
  /\ log = [InitialLog EXCEPT !.arg = Centre]

MoveTick ==
  \E vx, vy, kx, ky \in Speeds :
    /\ vx - log.arg.vx \in {-1, 0, 1, MaxSpeed - log.arg.vx, 0 - MaxSpeed - log.arg.vx}
    /\ vy - log.arg.vy \in {-1, 0, 1}
    /\ Commit({WithArg(BeginStep(World, "update"),
                       movePlayer(log.arg, vx, vy, kx, ky))})

RecentrePlayer ==
  \E op \in {"reset", "loadCheckpoint"} :
    Commit({WithArg(BeginStep(World, op), Centre)})

NextMove == MoveTick \/ RecentrePlayer

SpecMove == InitMove /\ [][NextMove]_vars

---------------------------------------------------------------------------
(* The nova in the boss fight of loop 5: the boss is at its last hit       *)
(* points, a swarmer it summoned is beside it, and a ring bullet or a      *)
(* bullet of the player may be in flight.                                  *)

InitNova ==
  /\ \E t \in 1..LOOP_DURATION, h \in BossLastHp,
        bs \in {<<>>, <<[isEnemy |-> TRUE, damage |-> 20]>>,
                <<[isEnemy |-> FALSE, damage |-> 25000]>>} :
       engine = [ArenaEngine(BOSS_LOOP_INTERVAL, t, h, <<>>) EXCEPT
                   !.enemies = Append(@, [type |-> "SWARMER",
                                          hp |-> 30000 * BOSS_LOOP_INTERVAL]),
                   !.bullets = bs]
  /\ browser = [checkpoint |->
                  JSONstringify(CheckpointOf(
                    [engine EXCEPT !.loopTimer = LOOP_DURATION,
                                   !.enemies = <<>>, !.bullets = <<>>])),
                intro |-> IntroSeen, rafPending |-> 1, timeouts |-> 0,
                listeners |-> RegisteredListeners]
  /\ app = [InitialApp EXCEPT !.gameState = "PLAYING"]
  /\ log = [InitialLog EXCEPT !.saved = Progress(engine)]

(* keydown / keyup listeners of the window, KeyE *)
KeyDownE ==
  /\ "window:keydown" \in browser.listeners
  /\ Commit({[BeginStep(World, "keydown") EXCEPT !.engine.novaDown = TRUE]})

KeyUpE ==
  /\ "window:keyup" \in browser.listeners
  /\ Commit({[BeginStep(World, "keyup") EXCEPT !.engine.novaDown = FALSE]})

NextNova ==
  \/ ArenaFrame
  \/ BurstShot
  \/ KeyDownE
  \/ KeyUpE

SpecNova == InitNova /\ [][NextNova]_vars

---------------------------------------------------------------------------
(* Teardown: the page from its load to the unmount of App, whose effect    *)
(* cleanup calls destroy(), and the events that reach the window after     *)
(* that.  The canvas leaves the document with App.  The run is followed    *)
(* through its first loop.                                                 *)

Unmount ==
  /\ app.gameState # "UNMOUNTED"
  /\ Commit({[destroy(BeginStep(World, "destroy"))
                EXCEPT !.app.gameState = "UNMOUNTED"]})

NextTeardown ==
  \/ HandleStart
  \/ HandleStoryComplete
  \/ ArenaFrame
  \/ KeyDownSpace
  \/ KeyUpSpace
  \/ WindowBlur
  \/ Unmount

SpecTeardown == Init /\ [][NextTeardown]_vars

---------------------------------------------------------------------------
(* Properties *)

HealthChanged(c, m) == [hook |-> "onHealthChange", current |-> c, max |-> m]

EmittedIn(l, h) == \E i \in 1..Len(l.emitted) : l.emitted[i] = h

GameOversIn(l) ==
  {i \in 1..Len(l.emitted) : l.emitted[i].hook = "onGameOver"}

(* C1: in every reachable state 0 <= player.hp <= player.maxHp. *)
C1_HpWithinBounds ==
  0 <= engine.player.hp /\ engine.player.hp <= engine.player.maxHp

(* C2: after resumeFromCutscene on a running, unpaused engine the frame    *)
(* callback is scheduled, so that ticks run again without further input:   *)
(* with no callback pending only an input handler can call loop() again.   *)
C2_ResumeReschedulesLoop ==
  (log.op = "resumeFromCutscene" /\ engine.isRunning /\ ~engine.isPaused)
    => browser.rafPending > 0

(* C3: from the emission of level-up until applyUpgrade answers it (or the *)
(* run is restarted) no step runs a simulation tick.                       *)
C3_NoTickWhileLevelUpPending ==
  [][(log.levelUps > 0 /\ log'.levelUps > 0) => log'.updates = 0]_vars

(* C4: between a timer expiry and the applyUpgrade that answers it,        *)
(* level-up is emitted exactly once (and loopCount grows by one): there is *)
(* never a second level-up waiting for the same answer.                    *)
C4_OneLevelUpPerAnswer == log.levelUps <= 1

(* C5: once game-over has been emitted no step runs a simulation tick      *)
(* until a restart (handleStart or handleLoadCheckpoint) is issued.        *)
C5_NoTickAfterGameOver ==
  [][(log.gameOver /\ log'.gameOver) => log'.updates = 0]_vars

(* C6: on a fresh player (hp = maxHp = 100) takeDamage(30) emits           *)
(* health-changed(70, 100); a following takeDamage(80) leaves hp at 0,     *)
(* emits health-changed(0, 100) and emits game-over exactly once, with     *)
(* finalStats holding the engine's score and loopCount.                    *)
C6_ScenarioA ==
  [][/\ (/\ engine.player.hp = 100 /\ engine.player.maxHp = 100
         /\ log'.op = "takeDamage" /\ log'.arg = 30)
        => EmittedIn(log', HealthChanged(70, 100))
     /\ (/\ log.op = "takeDamage" /\ log.arg = 30
         /\ engine.player.hp = 70 /\ engine.player.maxHp = 100
         /\ log'.op = "takeDamage" /\ log'.arg = 80)
        => /\ engine'.player.hp = 0
           /\ EmittedIn(log', HealthChanged(0, 100))
           /\ Cardinality(GameOversIn(log')) = 1
           /\ \A i \in GameOversIn(log') :
                log'.emitted[i].finalStats =
                  [score |-> engine'.score, loop |-> engine'.loopCount]]_vars

(* C7: a frame callback that finds the engine paused or in a cutscene runs *)
(* no update and changes nothing of the engine (loopTimer, player, entity  *)
(* collections).                                                           *)
C7_SuspendedFrameDoesNothing ==
  [][((engine.isPaused \/ engine.isInCutscene) /\ log'.op = "loop")
       => (log'.updates = 0 /\ engine' = engine)]_vars

C7_Witness ==
  /\ log.op = "loop" /\ log.updates = 0
  /\ engine.isRunning /\ engine.isInCutscene /\ ~engine.isPaused
  /\ engine.enemies # <<>>

(* C8: when the upgrade has been selected and the next loop starts, the    *)
(* entity collections are empty, the stat bundle is what the upgrade made  *)
(* of it, and hp = min(maxHp, hp + 0.5 * maxHp).                           *)
C8_LoopTransitionEffect ==
  [][log'.op = "applyUpgrade" =>
       \E id \in OfferedUpgrades :
         LET p == GearApply(id, engine.player)
         IN  /\ engine'.enemies = <<>> /\ engine'.bullets = <<>>
             /\ engine'.pickups = <<>> /\ engine'.gravWells = <<>>
             /\ StatBundle(engine'.player) = StatBundle(p)
             /\ engine'.player.maxHp = p.maxHp
             /\ 2 * engine'.player.hp = Min(2 * p.maxHp, 2 * p.hp + p.maxHp)]_vars

(* C9: loadCheckpoint, run when the record in storage is the one           *)
(* saveCheckpoint last wrote, does not throw and leaves loopCount, score,  *)
(* hp, maxHp, xp, the stat bundle and the unlocked-lore set equal to their *)
(* values at that save.                                                    *)
C9_CheckpointRoundTrip ==
  [][(log.saved.valid /\ log'.op = "loadCheckpoint")
       => (~log'.threw /\ Progress(engine') = log.saved)]_vars

C9_Witness ==
  /\ log.op = "loadCheckpoint" /\ ~log.threw /\ log.saved.valid
  /\ Progress(engine) = log.saved
  /\ log.saved.loopCount > 1
  /\ log.saved.stats.damageMult # InitialPlayer.damageMult
  /\ log.saved.hp > 0 /\ log.saved.hp < log.saved.maxHp

(* C10: loadCheckpoint with an unparseable or partial record in storage    *)
(* does not throw and ends in the state reset() followed by start() ends   *)
(* in.                                                                     *)
Malformed(item) ==
  \/ item.kind = "garbage"
  \/ /\ item.kind = "object"
     /\ ~({"loop", "score", "playerStats", "collectedLore"} \subseteq DOMAIN item)

C10_MalformedFallsBack ==
  [][(Malformed(browser.checkpoint) /\ log'.op = "loadCheckpoint")
       => /\ ~log'.threw
          /\ engine' \in {w.engine : w \in start(reset(World))}]_vars

(* C11: loadCheckpoint with no record in storage ends where reset()        *)
(* followed by start() ends: loopCount 1, score 0, the default stat        *)
(* bundle, hp = maxHp = PLAYER_BASE_HP, empty entity collections, and the  *)
(* engine is running.                                                      *)
C11_NoRecordIsFreshStart ==
  [][(browser.checkpoint.kind = "null" /\ log'.op = "loadCheckpoint")
       => /\ ~log'.threw
          /\ engine' \in {w.engine : w \in start(reset(World))}
          /\ engine'.isRunning
          /\ engine'.loopCount = 1 /\ engine'.score = 0
          /\ StatBundle(engine'.player) = StatBundle(InitialPlayer)
          /\ engine'.player.hp = PLAYER_BASE_HP
          /\ engine'.player.maxHp = PLAYER_BASE_HP
          /\ engine'.enemies = <<>> /\ engine'.bullets = <<>>
          /\ engine'.pickups = <<>> /\ engine'.gravWells = <<>>]_vars

C11_Witness ==
  /\ log.op = "loadCheckpoint" /\ ~log.threw
  /\ browser.checkpoint.kind = "null"
  /\ engine.isRunning /\ engine.player.hp = PLAYER_BASE_HP
  /\ engine.enemies = <<>> /\ app.gameState = "PLAYING"

(* C12: after every loop transition and after every applyUpgrade the       *)
(* record in storage holds the engine's current loopCount, score, stat     *)
(* bundle and unlocked lore ids, and loadCheckpoint run right after an     *)
(* upgrade selection gives back the stats the upgrade produced.            *)
CheckpointHolds(item, e) ==
  /\ item.kind = "object"
  /\ item.loop = e.loopCount /\ item.score = e.score
  /\ \A f \in StatFields : item.playerStats[f] = e.player[f]
  /\ SeqToSet(item.collectedLore) = e.unlockedLoreIds

C12_CheckpointFollowsProgress ==
  [][/\ (\/ log'.op = "applyUpgrade"
         \/ (log'.updates > 0 /\ engine'.loopCount = engine.loopCount + 1))
        => CheckpointHolds(browser'.checkpoint, engine')
     /\ log'.op = "applyUpgrade"
        => \A w \in loadCheckpoint([engine |-> engine', app |-> app',
                                    browser |-> browser', log |-> log']) :
             /\ ~w.log.threw
             /\ StatBundle(w.engine.player) = StatBundle(engine'.player)
             /\ w.engine.player.maxHp = engine'.player.maxHp]_vars

C12_Witness ==
  /\ log.op = "applyUpgrade"
  /\ CheckpointHolds(browser.checkpoint, engine)
  /\ engine.loopCount > 1
  /\ engine.player.damageMult = 2 * InitialPlayer.damageMult
  /\ browser.checkpoint.playerStats.maxHp = PLAYER_BASE_HP \div 2

(* C13: every start of a run with the intro already seen writes a baseline *)
(* checkpoint; after a fresh restart (reset() then start()) the record in  *)
(* storage holds loop 1, score 0 and the default stats.                    *)
C13_StartWritesBaseline ==
  [][(log'.op = "start" /\ engine.hasSeenIntro)
       => /\ browser'.checkpoint.kind = "object"
          /\ browser'.checkpoint.loop = 1
          /\ browser'.checkpoint.score = 0
          /\ \A f \in StatFields \ {"dashCooldownMult"} :
               browser'.checkpoint.playerStats[f] = InitialPlayer[f]]_vars

(* C14: reset(), called in any reachable state, leaves every field of the  *)
(* stat bundle at its default, hp = maxHp = PLAYER_BASE_HP, loopCount 1,   *)
(* score 0 and difficultyMultiplier 1.                                     *)
C14_ResetRestoresDefaults ==
  LET e == reset(World).engine
  IN  /\ StatBundle(e.player) = StatBundle(InitialPlayer)
      /\ e.player.hp = PLAYER_BASE_HP /\ e.player.maxHp = PLAYER_BASE_HP
      /\ e.loopCount = 1 /\ e.score = 0 /\ e.difficultyMultiplier = 5

BossPresent(e) == \E k \in 1..Len(e.enemies) : e.enemies[k].type = "BOSS"

(* C16: whenever loopCount becomes a multiple of BOSS_LOOP_INTERVAL, by a  *)
(* loop transition or by a checkpoint load, the enemies are replaced by    *)
(* exactly one BOSS with hp = maxHp = BOSS_BASE_HP * (1 + loopCount * 0.5) *)
(* (7000 at loop 5), hp being held in thousandths.                         *)
C16_BossLoopSpawnsOneBoss ==
  [][(/\ \/ engine'.loopCount # engine.loopCount
          \/ (log'.op = "loadCheckpoint" /\ ~log'.threw)
      /\ engine'.loopCount % BOSS_LOOP_INTERVAL = 0)
       => /\ Len(engine'.enemies) = 1
          /\ engine'.enemies[1].type = "BOSS"
          /\ engine'.enemies[1].hp = engine'.enemies[1].maxHp
          /\ 2 * engine'.enemies[1].hp =
               1000 * BOSS_BASE_HP * (2 + engine'.loopCount)
          /\ (engine'.loopCount = 5 => engine'.enemies[1].hp = 7000 * 1000)]_vars

C16_Witness ==
  /\ log.op = "loadCheckpoint" /\ ~log.threw
  /\ engine.loopCount = 5 /\ engine.isBossLoop
  /\ Len(engine.enemies) = 1 /\ engine.enemies[1].type = "BOSS"
  /\ engine.enemies[1].hp = 7000 * 1000

(* C17: in a boss loop, while the boss is there, no tick performs a loop   *)
(* transition however far the timer has run out: loopCount stays, no       *)
(* level-up is emitted, the timer goes on falling by the step of the tick, *)
(* and the player loses the 5 hit points of chip damage only in a tick     *)
(* that leaves the timer below 0 (what else the tick takes from the player *)
(* is the contact and the bullets of its later phases).                    *)
C17_BossLoopOutlastsTimer ==
  [][(/\ engine.isBossLoop /\ BossPresent(engine) /\ BossPresent(engine')
      /\ log'.updates > 0)
       => /\ engine'.loopCount = engine.loopCount
          /\ ~EmittedIn(log', [hook |-> "onLevelUp"])
          /\ engine'.loopTimer =
               engine.loopTimer - (IF log'.op = "loop" THEN 1 ELSE 0)
          /\ \A dt \in {0, 1} :
               engine.loopTimer - dt >= 0
                 => timerPhase(World, dt).engine.player.hp = engine.player.hp]_vars

C17_Witness ==
  /\ log.op = "loop" /\ log.updates = 1
  /\ engine.isBossLoop /\ BossPresent(engine) /\ engine.loopCount = 5
  /\ engine.loopTimer < 0 - CHIP_DELAY
  /\ EmittedIn(log, HealthChanged(engine.player.hp, engine.player.maxHp))
  /\ engine.player.hp > 0

(* C19: danger-warning is emitted at most once per loop, a loop running    *)
(* from one loop-changed emission (transition or checkpoint load) or       *)
(* restart to the next; boss loops with the timer below 0 and pauses       *)
(* included.                                                               *)
C19_OneWarningPerLoop == log.warnings <= 1

C19_Witness ==
  /\ log.warnings = 1 /\ engine.warningTriggered
  /\ engine.isBossLoop /\ engine.loopTimer < 0
  /\ log.op = "togglePause" /\ log.updates = 1

(* C15: while a BOSS is among the enemies the spawner adds none (after a   *)
(* tick the boss has no company but the swarmers it summoned itself, which *)
(* unlike spawned enemies carry no maxHp), and once the boss is gone a     *)
(* tick can spawn again.                                                   *)
C15_NoSpawnDuringBoss ==
  [][/\ (log'.updates > 0 /\ BossPresent(engine'))
        => \A k \in 1..Len(engine'.enemies) :
             engine'.enemies[k].type # "BOSS"
               => "maxHp" \notin DOMAIN engine'.enemies[k]
     /\ ~BossPresent(engine)
        => \E w \in spawnPhase(World) :
             Len(w.engine.enemies) = Len(engine.enemies) + 1]_vars

C15_Witness ==
  /\ log.op = "loop" /\ log.updates = 1
  /\ engine.loopCount = BOSS_LOOP_INTERVAL + 1
  /\ ~engine.isBossLoop /\ ~BossPresent(engine)
  /\ engine.enemies # <<>>

(* C18: a tick that brings the boss to hp <= 0 performs the loop           *)
(* transition: the boss is removed, isBossLoop is cleared, loopCount grows *)
(* by one, difficultyMultiplier by 0.2, the timer is reset and the         *)
(* checkpoint is written, whatever dealt the damage.                       *)
C18_BossDeathEndsLoop ==
  [][(/\ BossPresent(engine) /\ log'.updates > 0
      /\ \/ ~BossPresent(engine')
         \/ \E k \in 1..Len(engine'.enemies) :
              engine'.enemies[k].type = "BOSS" /\ engine'.enemies[k].hp <= 0)
       => /\ ~BossPresent(engine')
          /\ ~engine'.isBossLoop
          /\ engine'.loopCount = engine.loopCount + 1
          /\ engine'.difficultyMultiplier = engine.difficultyMultiplier + 1
          /\ engine'.loopTimer = LOOP_DURATION
          /\ browser'.checkpoint.loop = engine'.loopCount]_vars

(* C20: a step that emits lore-unlocked leaves the engine paused with the  *)
(* lore modal up, and dismissing the modal (one togglePause) resumes the   *)
(* simulation; also when the tick triggered a cutscene or a loop           *)
(* transition.                                                             *)
LoreUnlockedIn(l) ==
  \E i \in 1..Len(l.emitted) : l.emitted[i].hook = "onLoreUnlock"

C20_LorePausesUntilDismissed ==
  [][/\ LoreUnlockedIn(log')
        => (engine'.isPaused /\ app'.currentLoreFragment # "none")
     /\ (/\ app.currentLoreFragment # "none" /\ log'.op = "togglePause"
         /\ app'.currentLoreFragment = "none")
        => (~engine'.isPaused /\ log'.updates > 0)]_vars

(* C21: once destroy() has run, none of the listeners bindEvents           *)
(* registered is still registered, and no later step changes the engine    *)
(* or emits through a hook.                                                *)
C21_DestroyUnregistersAll ==
  [][app'.gameState = "UNMOUNTED"
       => /\ browser'.listeners = {}
          /\ app.gameState = "UNMOUNTED"
               => (engine' = engine /\ log'.emitted = <<>>)]_vars

(* C22: the entity collections grow only inside a tick: a step that runs   *)
(* no update (an event, a resume refused by a cutscene, a timer callback)  *)
(* adds no bullet, enemy, pickup or gravity well, whether the engine is    *)
(* running, paused, in a cutscene or over.  reset and loadCheckpoint,      *)
(* which rebuild the collections, are left aside.                          *)
C22_EntitiesChangeOnlyInTick ==
  [][(log'.updates = 0 /\ log'.op \notin {"start", "loadCheckpoint"})
       => /\ Len(engine'.bullets) <= Len(engine.bullets)
          /\ Len(engine'.enemies) <= Len(engine.enemies)
          /\ Len(engine'.pickups) <= Len(engine.pickups)
          /\ Len(engine'.gravWells) <= Len(engine.gravWells)]_vars

C24_BulletConsumedByFirstHit ==
  \A i \in 1..Len(engine.bullets), j \in 1..Len(engine.enemies) :
    ~engine.bullets[i].isEnemy =>
      \A w \in hitEnemy(World, i, j) :
        Len(w.engine.bullets) = Len(engine.bullets) - 1

XpChanged(c, m) == [hook |-> "onXpChange", current |-> c, max |-> m, level |-> 0]

(* C25: an XP pickup collected outside overdrive that fills the bar        *)
(* activates overdrive on the spot: xp is 0, overdriveTimer is             *)
(* OVERDRIVE_DURATION and the first xp-changed of the collection reports   *)
(* the full bar; a tick that reported the full bar ends in overdrive; and  *)
(* while overdrive lasts a player bullet takes 1.5 times its damage from   *)
(* the enemy it hits.                                                      *)
C25_FullBarActivatesOverdrive ==
  /\ (engine.player.overdriveTimer <= 0
        /\ engine.player.xp + 1 = XP_TO_OVERDRIVE)
       => \A w \in collect(BeginStep(World, "loop"), "XP") :
            /\ w.engine.player.xp = 0
            /\ w.engine.player.overdriveTimer = OVERDRIVE_DURATION
            /\ w.log.emitted[1] = XpChanged(XP_TO_OVERDRIVE, XP_TO_OVERDRIVE)
  /\ EmittedIn(log, XpChanged(XP_TO_OVERDRIVE, XP_TO_OVERDRIVE))
       => engine.player.overdriveTimer = OVERDRIVE_DURATION
  /\ engine.player.overdriveTimer > 0
       => \A i \in 1..Len(engine.bullets), j \in 1..Len(engine.enemies) :
            ~engine.bullets[i].isEnemy =>
              LET d == (3 * engine.bullets[i].damage) \div 2
              IN  \A w \in hitEnemy(World, i, j) :
                    IF engine.enemies[j].hp > d
                    THEN w.engine.enemies[j].hp = engine.enemies[j].hp - d
                    ELSE Len(w.engine.enemies) = Len(engine.enemies) - 1

(* A tick has filled the bar, and overdrive finds a bullet and an enemy. *)
C25_Witness ==
  /\ log.op = "loop" /\ log.updates = 1
  /\ EmittedIn(log, XpChanged(XP_TO_OVERDRIVE, XP_TO_OVERDRIVE))
  /\ engine.player.overdriveTimer = OVERDRIVE_DURATION
  /\ engine.player.xp = 0
  /\ \E i \in 1..Len(engine.bullets) : ~engine.bullets[i].isEnemy
  /\ engine.enemies # <<>>

C27_PlayerInsideArena ==
  /\ log.arg.x >= PLAYER_RADIUS /\ log.arg.x <= CANVAS_WIDTH - PLAYER_RADIUS
  /\ log.arg.y >= PLAYER_RADIUS /\ log.arg.y <= CANVAS_HEIGHT - PLAYER_RADIUS

(* A tick has stopped the player at the left wall while moving into it. *)
C27_Witness ==
  /\ log.op = "update"
  /\ log.arg.x = PLAYER_RADIUS
  /\ log.arg.vx = 0 - MaxSpeed

(* C28: at the end of a tick no enemy with hp <= 0, the boss included, is  *)
(* left among the enemies, whatever took its last hit points.              *)
C28_NoDeadEnemyRemains ==
  log.updates > 0 => \A k \in 1..Len(engine.enemies) : engine.enemies[k].hp > 0

NovaHit(e) == [e EXCEPT !.hp = @ - 25000]

Alive(e) == e.hp > 0

(* C29: triggerNova takes every enemy bullet within the radius out of the  *)
(* bullets and 25 hit points from every enemy within it, also when the     *)
(* nova kills some of them: the enemies it leaves are those outside the    *)
(* radius, untouched, and those within it that survive the 25, in their    *)
(* order; the player's bullets and the enemy bullets outside the radius    *)
(* stay.                                                                   *)
C29_NovaReachesAllInRadius ==
  \A nearB \in SUBSET (1..Len(engine.bullets)),
     nearE \in [1..Len(engine.enemies) -> BOOLEAN] :
    \A w \in triggerNova(World, nearB, nearE) :
      /\ w.engine.enemies =
           SelectSeq([k \in 1..Len(engine.enemies) |->
                        IF nearE[k] THEN NovaHit(engine.enemies[k])
                        ELSE engine.enemies[k]], Alive)
      /\ \A b \in {TRUE, FALSE} :
           Cardinality({i \in 1..Len(w.engine.bullets) :
                          w.engine.bullets[i].isEnemy = b})
             = Cardinality({i \in 1..Len(engine.bullets) :
                              /\ engine.bullets[i].isEnemy = b
                              /\ ~(b /\ i \in nearB)})

(* C30: at the end of every tick the xp bar is short of full: xp that      *)
(* reaches XP_TO_OVERDRIVE, by an XP pickup or by the bonus of a DATA      *)
(* pickup when every lore fragment is unlocked, has activated overdrive    *)
(* and been reset in that tick.                                            *)
C30_XpBelowThreshold ==
  log.updates > 0 => engine.player.xp < XP_TO_OVERDRIVE

(* C31: a tick that finds hitStop > 0 changes nothing of the engine but    *)
(* hitStop, which it lowers by the step: timer, player, cooldowns,         *)
(* entities, score and loopCount stay, no hook is called, and the frame    *)
(* callback that ran is replaced by a new one.                             *)
C31_HitStopTickIsNoOp ==
  [][(engine.hitStop > 0 /\ log'.updates > 0)
       => /\ engine' = [engine EXCEPT !.hitStop = engine'.hitStop]
          /\ engine'.hitStop = engine.hitStop - (IF log'.op = "loop" THEN 1 ELSE 0)
          /\ log'.emitted = <<>>
          /\ app' = app
          /\ log'.op = "loop" => browser'.rafPending = browser.rafPending]_vars

(* A frame has just run frozen by the hit-stop of a nova. *)
C31_Witness ==
  /\ log.op = "loop" /\ log.updates = 1
  /\ engine.hitStop = 0
  /\ engine.player.novaCooldownTimer = NOVA_COOLDOWN - 1
  /\ browser.rafPending = 1

(* C32: no loop passes through the low-time window without a               *)
(* danger-warning: after a tick that leaves the timer in the window        *)
(* (0 < loopTimer <= DANGER_WINDOW), a warning has been emitted since the  *)
(* loop began, be it by a transition, a checkpoint load or a restart.      *)
C32_WarningInEveryLoop ==
  (/\ log.updates > 0
   /\ engine.loopTimer > 0 /\ engine.loopTimer <= DANGER_WINDOW)
    => log.warnings >= 1

(* C33: a pause request acts only on a run in progress: while the page     *)
(* shows MENU, GAME_OVER, LEVEL_UP or CUTSCENE it leaves isPaused and the  *)
(* displayed state as they are and emits no pause-toggled.                 *)
C33_PauseOnlyWhileRunInProgress ==
  [][(log'.op = "togglePause" /\ app.gameState \notin {"PLAYING", "PAUSED"})
       => /\ engine'.isPaused = engine.isPaused
          /\ app'.gameState = app.gameState
          /\ \A i \in 1..Len(log'.emitted) :
               log'.emitted[i].hook # "onPauseToggle"]_vars

(* C34: a step that changes the engine's score (a kill, reset,             *)
(* loadCheckpoint) ends with the score the page shows, set by the last     *)
(* score-changed, equal to it (a load that throws on a malformed record   *)
(* is left aside).                                                         *)
C34_ShownScoreIsEngineScore ==
  [][(engine'.score # engine.score /\ ~log'.threw)
       => app'.score = engine'.score]_vars

(* C35: a step that changes player.hp or player.maxHp (damage, healing,    *)
(* an upgrade, reset, a checkpoint load that does not throw) ends with the *)
(* health the page shows, set by the last health-changed, equal to them.   *)
C35_ShownHealthIsEngineHealth ==
  [][(/\ \/ engine'.player.hp # engine.player.hp
          \/ engine'.player.maxHp # engine.player.maxHp
      /\ ~log'.threw)
       => /\ app'.health = engine'.player.hp
          /\ app'.maxHealth = engine'.player.maxHp]_vars

(* C36: a tick, a pause toggle, a cutscene and a loop transition leave     *)
(* every field of the player's stat bundle as it was; the bundle changes   *)
(* only in applyUpgrade, reset (op "start") and loadCheckpoint.            *)
C36_StatBundleChangesOnlyByUpgradeOrRestore ==
  [][log'.op \notin {"applyUpgrade", "start", "loadCheckpoint"}
       => StatBundle(engine'.player) = StatBundle(engine.player)]_vars

(* A tick takes a run whose bundle an upgrade has changed into loop 3.     *)
C36_Witness ==
  /\ log.op = "loop" /\ log.updates = 1
  /\ StatBundle(engine.player) # StatBundle(InitialPlayer)
  /\ engine.loopCount = 3 /\ engine.loopTimer = LOOP_DURATION

(* C37: at most one frame callback of loop() is pending at any time,       *)
(* however togglePause, start, loadCheckpoint, blur and the frame          *)
(* callbacks interleave.                                                   *)
C37_AtMostOneFramePending ==
  browser.rafPending <= 1

(* C38: a blur while a run is in progress and no cutscene is showing       *)
(* leaves the engine paused and no key held (spaceDown is the held-key map *)
(* of the model), whether or not the engine was paused before the blur.    *)
C38_BlurLeavesEnginePaused ==
  (/\ "window:blur" \in browser.listeners
   /\ engine.isRunning /\ ~engine.isInCutscene)
    => \A w \in blur(BeginStep(World, "togglePause")) :
         w.engine.isPaused /\ ~w.engine.spaceDown

(* C39: in every state difficultyMultiplier = 1 + 0.2 * (loopCount - 1),   *)
(* in fifths 4 + loopCount; a loaded checkpoint gives the value the run    *)
(* had when it reached that loop.                                          *)
C39_DifficultyFollowsLoopCount ==
  ~log.threw => engine.difficultyMultiplier = 4 + engine.loopCount

(* C40: at every tick boundary and after reset, loadCheckpoint and every   *)
(* loop transition, isBossLoop holds exactly when a BOSS is among the      *)
(* enemies, and there is never more than one BOSS; killing the boss        *)
(* (killEnemy) lowers the flag as it removes it.                           *)
C40_BossLoopIffBossPresent ==
  /\ engine.isBossLoop <=> BossPresent(engine)
  /\ Cardinality({k \in 1..Len(engine.enemies) :
                    engine.enemies[k].type = "BOSS"}) <= 1
  /\ \A j \in 1..Len(engine.enemies) :
       engine.enemies[j].type = "BOSS"
         => \A w \in killEnemy(BeginStep(World, "loop"), j) :
              ~w.engine.isBossLoop /\ ~BossPresent(w.engine)

(* A tick has taken the run into the boss loop and spawned the boss.       *)
C40_Witness ==
  /\ log.op = "loop" /\ log.updates = 1
  /\ engine.loopCount = BOSS_LOOP_INTERVAL
  /\ engine.loopTimer = LOOP_DURATION
  /\ engine.isBossLoop /\ BossPresent(engine)
  /\ engine.isInCutscene

====
